---------------------------- MODULE Spec2Model ----------------------------
(***************************************************************************)
(* A model of python_for_nonprofits:                                       *)
(*   - mapping_functions.py: prepare_zip_table, prepare_county_table,      *)
(*     prepare_state_table (the shape/data join) and render_map (drop,     *)
(*     scale, round, truncate, bin, save the .html map, screenshot it);    *)
(*   - sharing_database_data.py (the database-to-spreadsheet export).      *)
(*                                                                         *)
(* Numbers.  A data value is held as an integer count of 10^-FracDigits    *)
(* (exact decimal arithmetic; binary floating-point error is not           *)
(* modelled).  A bin edge is held as an integer count of eighths of that   *)
(* unit, because every edge the code computes is k/8 of a difference of    *)
(* two values (Den == 8 below).                                            *)
(***************************************************************************)
EXTENDS Integers, Sequences, FiniteSets, TLC

VARIABLES
    \* ---- render_map ----
    merged_data_table,        \* the caller's table (argument, line 182)
    args,                     \* the other arguments of the call
    merged_data_table_copy,   \* the local working copy (line 302)
    bins,                     \* the bin edges, in eighths (lines 325-340)
    fs,                       \* the file system: path -> content
    ff_driver,                \* the Firefox instance (line 437)
    page,                     \* what the browser has loaded (line 448)
    waited,                   \* the render delay has elapsed (line 450)
    m,                        \* the folium map object (line 352)
    screenshot_image,         \* what get_screenshot_as_file returned (line 454)
    pc,                       \* the statement render_map is at
    raised_at,                \* the statement that raised, if one did
    outcome,                  \* what the call gave its caller
    \* ---- prepare_zip_table, prepare_county_table, prepare_state_table ----
    prepare,                  \* which of the three functions is called
    dropna_geometry,          \* its dropna_geometry argument
    shape_data,               \* the shapefile's table (lines 61, 123, 167)
    census_data,              \* the .csv file's table (lines 83, 144, 171)
    merged_shape_data_table,  \* the merged table (lines 93, 150, 173)
    jpc,                      \* the statement the function is at
    \* ---- the zip-code key normalisation, on one key ----
    zcol,                     \* the column the key is of: shape or data
    zkey0,                    \* the key as read from the file
    zkey,                     \* the key now
    zn,                       \* how many times it has been normalised
    \* ---- the caller of render_map ----
    calls,                    \* how many calls of render_map were started
    first,                    \* what the first call left, once it is over
    table_before,             \* the caller's table before the first call
    \* ---- sharing_database_data.py ----
    db_curr_enrollment,       \* the curr_enrollment table of the database
    df_curr_enrollment,       \* the DataFrame read from it (lines 76-77)
    ws_cells,                 \* the worksheet's cells: <<row, col>> -> value
    ws_cells_before,          \* the worksheet's cells before the script ran
    epc,                      \* the statement the script is at
    eraised_at                \* the statement that raised, if one did

renderVars == <<merged_data_table, args, merged_data_table_copy, bins, fs,
                ff_driver, page, waited, m, screenshot_image, pc, raised_at,
                outcome>>

joinVars == <<prepare, dropna_geometry, shape_data, census_data,
              merged_shape_data_table, jpc>>

zipKeyVars == <<zcol, zkey0, zkey, zn>>

callVars == <<calls, first, table_before>>

exportVars == <<db_curr_enrollment, df_curr_enrollment, ws_cells,
                ws_cells_before, epc, eraised_at>>

vars == <<renderVars, joinVars, zipKeyVars, callVars, exportVars>>

---------------------------------------------------------------------------
\* Bounds of the model.

\* The longest table drawn as an input.
MaxRows == 3

\* The number of decimal digits a raw data value carries.
FracDigits == 1

---------------------------------------------------------------------------
\* Values.

\* The raw values a cell of the data column may hold, in 10^-FracDigits
\* (negative values, rounding ties and near-ties).
SampleValues == {-15, 5, 15, 26}

RECURSIVE Pow10(_)
Pow10(n) ==
    IF n <= 0 THEN 1 ELSE 10 * Pow10(n - 1)

Min2(a, b) ==
    IF a <= b THEN a ELSE b

SeqMin(s) ==
    CHOOSE x \in {s[i] : i \in DOMAIN s} : \A i \in DOMAIN s : x <= s[i]

SeqMax(s) ==
    CHOOSE x \in {s[i] : i \in DOMAIN s} : \A i \in DOMAIN s : x >= s[i]

\* ceil(a / b) for b > 0.
CeilDiv(a, b) ==
    -((-a) \div b)

\* A table is a sequence of rows [key, val, isna]: the feature's identifier,
\* its value in the data column, and whether that value is missing (NaN).
\* The value column of a table, as a sequence.
Column(t) ==
    [i \in DOMAIN t |-> t[i].val]

---------------------------------------------------------------------------
\* render_map, lines 300-323: the data pipeline.

\* .copy().dropna(subset = [data_variable]), line 302.
DropNaValue(t) ==
    SelectSeq(t, LAMBDA r : ~r.isna)

\* column * multiply_data_by, lines 307-308.
MultiplyColumn(t, k) ==
    [i \in DOMAIN t |-> [t[i] EXCEPT !.val = @ * k]]

\* numpy's round of one value to `decimals` places: to the nearest multiple
\* of 10^(FracDigits - decimals), a tie going to the even multiple.
RoundValue(x, decimals) ==
    LET q   == Pow10(FracDigits - decimals)
        lo  == q * (x \div q)
        rem == x - lo
    IN  IF 2 * rem < q THEN lo
        ELSE IF 2 * rem > q THEN lo + q
        ELSE IF (x \div q) % 2 = 0 THEN lo ELSE lo + q

\* column.round(variable_decimals), lines 312-314.
RoundColumn(t, decimals) ==
    [i \in DOMAIN t |-> [t[i] EXCEPT !.val = RoundValue(@, decimals)]]

\* [0:rows_to_map] when rows_to_map != 0, lines 321-322.
TruncateRows(t, rows_to_map) ==
    IF rows_to_map # 0 THEN SubSeq(t, 1, Min2(rows_to_map, Len(t))) ELSE t

---------------------------------------------------------------------------
\* render_map, lines 325-347: the bin edges.

\* The denominator of a bin edge: 8 classes (lines 329 and 337).
Den == 8

\* The percentile points of line 329, in units of 100/Den percent:
\* 0, 12.5, 25, ..., 100.
PercentilePoints ==
    [k \in 1..(Den + 1) |-> k - 1]

\* numpy.percentile, default (linear) method, of one point p/Den of the
\* ascending sequence s (non-empty): the order statistic at the virtual index
\* (n-1)*p/Den, interpolated linearly between its neighbours.  In eighths.
Percentile(s, p) ==
    LET pos == (Len(s) - 1) * p
        j   == pos \div Den
        g   == pos % Den
    IN  IF g = 0 THEN Den * s[j + 1]
        ELSE Den * s[j + 1] + g * (s[j + 2] - s[j + 1])

\* A variant of PercentileBins that interpolates between the values in table
\* order, not between the order statistics.
PercentileBins_Unsorted(vals) ==
    [k \in DOMAIN PercentilePoints |-> Percentile(vals, PercentilePoints[k])]

\* np.percentile(column.dropna(), [0, 12.5, ..., 100]), lines 328-329.
PercentileBins(vals) ==
    LET s == SortSeq(vals, LAMBDA a, b : a < b)
    IN  [k \in DOMAIN PercentilePoints |-> Percentile(s, PercentilePoints[k])]

\* A variant of Arange that is off by one step: it starts at start + step.
Arange_FromFirstStep(start, stop, step) ==
    [i \in 1..CeilDiv(stop - start, step) |-> start + i * step]

\* np.arange(start, stop, step) for step > 0, all three in eighths:
\* ceil((stop - start)/step) values start, start + step, ...
Arange(start, stop, step) ==
    [i \in 1..CeilDiv(stop - start, step) |-> start + (i - 1) * step]

\* A variant of EquallySpacedBins without line 339 (bins.append(max_val)).
EquallySpacedBins_NoAppend(vals) ==
    Arange(Den * SeqMin(vals), Den * SeqMax(vals), SeqMax(vals) - SeqMin(vals))

\* lines 335-339: min, max, increment = (max - min)/8, arange, append(max).
EquallySpacedBins(vals) ==
    LET min_val   == SeqMin(vals)
        max_val   == SeqMax(vals)
        increment == max_val - min_val      \* (max_val - min_val)/8, in eighths
    IN  Append(Arange(Den * min_val, Den * max_val, increment), Den * max_val)

\* Whether the bin computation and the Choropleth built from it go through:
\* np.percentile and min()/max() of an empty column give no usable edges,
\* and np.arange with a zero increment cannot compute its length
\* ((stop - start)/step is 0/0).
BinsComputable(vals, bin_type) ==
    /\ vals # <<>>
    /\ bin_type = "equally_spaced" => SeqMin(vals) # SeqMax(vals)

---------------------------------------------------------------------------
\* render_map, lines 352-462: the map, its file and its screenshot.

\* html_save_path+'\\'+map_name+'.html', lines 424 and 448.
HtmlPath == "html_save_path\\map_name.html"

\* A variant of ScreenshotPath that reuses the path of line 448.
ScreenshotPath_SameAsHtml == "html_save_path\\map_name.html"

\* screenshot_save_path+'\\'+map_name+'.png', line 455.
ScreenshotPath == "screenshot_save_path\\map_name.png"

Paths == {"html_save_path\\map_name.html", "screenshot_save_path\\map_name.png"}

\* A file's content is <<>> (no such file) or <<c>> for one content c.
NoFile == <<>>

\* The map of lines 352-413: base tiles, the choropleth of the copy coloured
\* by the bins (with its legend), and the tooltip/highlight overlay.
FoliumMap(t, b) ==
    [kind   |-> "html",
     layers |-> <<"tiles", "choropleth", "legend", "tooltip">>,
     rows   |-> t,
     bins   |-> b]

\* The picture the browser takes of a loaded page.
Png(doc) ==
    [doc EXCEPT !.kind = "png"]

\* A file opened for writing whose write did not complete.
Partial ==
    [kind |-> "partial", layers |-> <<>>, rows |-> <<>>, bins |-> <<>>]

---------------------------------------------------------------------------
\* The inputs of a call.

Row(k, v) ==
    [key |-> k, val |-> v, isna |-> FALSE]

NaRow(k) ==
    [key |-> k, val |-> 0, isna |-> TRUE]

\* What a cell of the data column may be: a sample value, or missing.
Cells ==
    {Row(0, v) : v \in SampleValues} \cup {NaRow(0)}

\* All tables of n rows whose keys are 1..n (unique).
TablesOfLen(n) ==
    {[i \in 1..n |-> [c[i] EXCEPT !.key = i]] : c \in [1..n -> Cells]}

\* The table of the equal-width scenario: values 0, 10, 20, ..., 80.
ScenarioTable ==
    [i \in 1..(Den + 1) |-> Row(i, (i - 1) * 10 * Pow10(FracDigits))]

Tables ==
    UNION {TablesOfLen(n) : n \in 0..MaxRows} \cup {ScenarioTable}

ArgSets ==
    [multiply_data_by  : {1, 3},
     variable_decimals : {0, 1},
     rows_to_map       : {0, 1, 2},
     bin_type          : {"percentiles", "equally_spaced", "quantiles"},
     generate_image    : BOOLEAN]

RenderInit ==
    /\ merged_data_table \in Tables
    /\ args \in ArgSets
    /\ merged_data_table_copy = <<>>
    /\ bins = <<>>
    /\ fs = [p \in Paths |-> NoFile]
    /\ ff_driver = "none"
    /\ page = NoFile
    /\ waited = FALSE
    /\ m = NoFile
    /\ screenshot_image = "unset"
    /\ pc = "dropna"
    /\ raised_at = "none"
    /\ outcome = "none"

\* An exception leaves render_map: nothing after the raising statement runs.
Raise(exc) ==
    /\ raised_at' = pc
    /\ pc' = "raised"
    /\ outcome' = exc

Goto(next) ==
    /\ pc' = next
    /\ UNCHANGED <<raised_at, outcome>>

---------------------------------------------------------------------------
\* The statements of render_map.

\* line 302
DropNa ==
    /\ pc = "dropna"
    /\ merged_data_table_copy' = DropNaValue(merged_data_table)
    /\ Goto("multiply")
    /\ UNCHANGED <<merged_data_table, args, bins, fs, ff_driver, page, waited,
                   m, screenshot_image>>
    /\ UNCHANGED <<joinVars, zipKeyVars, callVars, exportVars>>

\* Multiply with the scaling applied to the caller's table as well.
Multiply_InPlace ==
    /\ pc = "multiply"
    /\ merged_data_table_copy' =
           MultiplyColumn(merged_data_table_copy, args.multiply_data_by)
    /\ merged_data_table' =
           MultiplyColumn(merged_data_table, args.multiply_data_by)
    /\ Goto("round")
    /\ UNCHANGED <<args, bins, fs, ff_driver, page, waited, m,
                   screenshot_image>>
    /\ UNCHANGED <<joinVars, zipKeyVars, callVars, exportVars>>

\* lines 307-308
Multiply ==
    /\ pc = "multiply"
    /\ merged_data_table_copy' =
           MultiplyColumn(merged_data_table_copy, args.multiply_data_by)
    /\ Goto("round")
    /\ UNCHANGED <<merged_data_table, args, bins, fs, ff_driver, page, waited,
                   m, screenshot_image>>
    /\ UNCHANGED <<joinVars, zipKeyVars, callVars, exportVars>>

\* lines 312-314
Round ==
    /\ pc = "round"
    /\ merged_data_table_copy' =
           RoundColumn(merged_data_table_copy, args.variable_decimals)
    /\ Goto("truncate")
    /\ UNCHANGED <<merged_data_table, args, bins, fs, ff_driver, page, waited,
                   m, screenshot_image>>
    /\ UNCHANGED <<joinVars, zipKeyVars, callVars, exportVars>>

\* lines 321-323
Truncate ==
    /\ pc = "truncate"
    /\ merged_data_table_copy' =
           TruncateRows(merged_data_table_copy, args.rows_to_map)
    /\ Goto("bins")
    /\ UNCHANGED <<merged_data_table, args, bins, fs, ff_driver, page, waited,
                   m, screenshot_image>>
    /\ UNCHANGED <<joinVars, zipKeyVars, callVars, exportVars>>

\* A variant of BinInput that reads the caller's table instead of the
\* scaled, rounded and truncated copy.
BinInput_FromCallerTable ==
    Column(DropNaValue(merged_data_table))

\* The values the bins are derived from: the data column of the copy
\* (lines 328, 335, 336).
BinInput ==
    Column(merged_data_table_copy)

\* ComputeBins with the last branch taken for every other bin_type: an
\* unrecognized bin_type is binned as 'percentiles'.
ComputeBins_ElsePercentiles ==
    /\ pc = "bins"
    /\ IF ~BinsComputable(BinInput, args.bin_type)
       THEN Raise("ValueError") /\ bins' = bins
       ELSE /\ bins' = IF args.bin_type = "equally_spaced"
                       THEN EquallySpacedBins(BinInput)
                       ELSE PercentileBins(BinInput)
            /\ Goto("map")
    /\ UNCHANGED <<merged_data_table, args, merged_data_table_copy, fs,
                   ff_driver, page, waited, m, screenshot_image>>
    /\ UNCHANGED <<joinVars, zipKeyVars, callVars, exportVars>>

\* lines 325-347
ComputeBins ==
    /\ pc = "bins"
    /\ IF args.bin_type \notin {"percentiles", "equally_spaced"}
       THEN Raise("TypeError") /\ bins' = bins
       ELSE IF ~BinsComputable(BinInput, args.bin_type)
       THEN Raise("ValueError") /\ bins' = bins
       ELSE /\ bins' = IF args.bin_type = "percentiles"
                       THEN PercentileBins(BinInput)
                       ELSE EquallySpacedBins(BinInput)
            /\ Goto("map")
    /\ UNCHANGED <<merged_data_table, args, merged_data_table_copy, fs,
                   ff_driver, page, waited, m, screenshot_image>>
    /\ UNCHANGED <<joinVars, zipKeyVars, callVars, exportVars>>

\* lines 352-413
BuildMap ==
    /\ pc = "map"
    /\ m' = <<FoliumMap(merged_data_table_copy, bins)>>
    /\ Goto("save")
    /\ UNCHANGED <<merged_data_table, args, merged_data_table_copy, bins, fs,
                   ff_driver, page, waited, screenshot_image>>
    /\ UNCHANGED <<joinVars, zipKeyVars, callVars, exportVars>>

\* Save with the write done only when an image is asked for.
Save_OnlyWithImage ==
    /\ pc = "save"
    /\ \/ /\ fs' = IF args.generate_image
                   THEN [fs EXCEPT ![HtmlPath] = m]
                   ELSE fs
          /\ Goto("generate_image")
       \/ fs' = fs /\ Raise("OSError")
    /\ UNCHANGED <<merged_data_table, args, merged_data_table_copy, bins,
                   ff_driver, page, waited, m, screenshot_image>>
    /\ UNCHANGED <<joinVars, zipKeyVars, callVars, exportVars>>

\* line 424: m.save writes the file, or raises when the path is unwritable.
Save ==
    /\ pc = "save"
    /\ \/ fs' = [fs EXCEPT ![HtmlPath] = m] /\ Goto("generate_image")
       \/ fs' = fs /\ Raise("OSError")
    /\ UNCHANGED <<merged_data_table, args, merged_data_table_copy, bins,
                   ff_driver, page, waited, m, screenshot_image>>
    /\ UNCHANGED <<joinVars, zipKeyVars, callVars, exportVars>>

\* line 435, generate_image false: straight to the return
SkipImage ==
    /\ pc = "generate_image"
    /\ ~args.generate_image
    /\ Goto("return")
    /\ UNCHANGED <<merged_data_table, args, merged_data_table_copy, bins, fs,
                   ff_driver, page, waited, m, screenshot_image>>
    /\ UNCHANGED <<joinVars, zipKeyVars, callVars, exportVars>>

\* lines 435-437: webdriver.Firefox() starts a browser, or raises
Firefox ==
    /\ pc = "generate_image"
    /\ args.generate_image
    /\ \/ ff_driver' = "open" /\ Goto("set_window_size")
       \/ ff_driver' = ff_driver /\ Raise("WebDriverException")
    /\ UNCHANGED <<merged_data_table, args, merged_data_table_copy, bins, fs,
                   page, waited, m, screenshot_image>>
    /\ UNCHANGED <<joinVars, zipKeyVars, callVars, exportVars>>

\* lines 443-445
SetWindowSize ==
    /\ pc = "set_window_size"
    /\ \/ Goto("get")
       \/ Raise("WebDriverException")
    /\ UNCHANGED <<merged_data_table, args, merged_data_table_copy, bins, fs,
                   ff_driver, page, waited, m, screenshot_image>>
    /\ UNCHANGED <<joinVars, zipKeyVars, callVars, exportVars>>

\* line 448: the browser loads the file at the .html path
Get ==
    /\ pc = "get"
    /\ \/ page' = fs[HtmlPath] /\ Goto("sleep")
       \/ page' = page /\ Raise("WebDriverException")
    /\ UNCHANGED <<merged_data_table, args, merged_data_table_copy, bins, fs,
                   ff_driver, waited, m, screenshot_image>>
    /\ UNCHANGED <<joinVars, zipKeyVars, callVars, exportVars>>

\* Sleep without the wait: the statement passes at once.
Sleep_NoWait ==
    /\ pc = "sleep"
    /\ \/ waited' = waited /\ Goto("get_screenshot_as_file")
       \/ waited' = waited /\ Raise("KeyboardInterrupt")
    /\ UNCHANGED <<merged_data_table, args, merged_data_table_copy, bins, fs,
                   ff_driver, page, m, screenshot_image>>
    /\ UNCHANGED <<joinVars, zipKeyVars, callVars, exportVars>>

\* line 450: time.sleep(2), which an interrupt (Ctrl-C) may cut short
Sleep ==
    /\ pc = "sleep"
    /\ \/ waited' = TRUE /\ Goto("get_screenshot_as_file")
       \/ waited' = waited /\ Raise("KeyboardInterrupt")
    /\ UNCHANGED <<merged_data_table, args, merged_data_table_copy, bins, fs,
                   ff_driver, page, m, screenshot_image>>
    /\ UNCHANGED <<joinVars, zipKeyVars, callVars, exportVars>>

\* lines 454-455: get_screenshot_as_file takes the picture and writes it
\* (returns True); raises when the browser cannot take it; returns False
\* when the file cannot be opened (nothing written) or written in full.
GetScreenshotAsFile ==
    /\ pc = "get_screenshot_as_file"
    /\ \/ /\ fs' = [fs EXCEPT ![ScreenshotPath] = <<Png(page[1])>>]
          /\ page # NoFile
          /\ screenshot_image' = "True"
          /\ Goto("quit")
       \/ /\ fs' = fs
          /\ screenshot_image' = "False"
          /\ Goto("quit")
       \/ /\ fs' = [fs EXCEPT ![ScreenshotPath] = <<Partial>>]
          /\ screenshot_image' = "False"
          /\ Goto("quit")
       \/ /\ fs' = fs
          /\ screenshot_image' = screenshot_image
          /\ Raise("WebDriverException")
    /\ UNCHANGED <<merged_data_table, args, merged_data_table_copy, bins,
                   ff_driver, page, waited, m>>
    /\ UNCHANGED <<joinVars, zipKeyVars, callVars, exportVars>>

\* line 459
Quit ==
    /\ pc = "quit"
    /\ ff_driver' = "quit"
    /\ Goto("return")
    /\ UNCHANGED <<merged_data_table, args, merged_data_table_copy, bins, fs,
                   page, waited, m, screenshot_image>>
    /\ UNCHANGED <<joinVars, zipKeyVars, callVars, exportVars>>

\* line 462
Return ==
    /\ pc = "return"
    /\ pc' = "returned"
    /\ outcome' = "m"
    /\ UNCHANGED <<merged_data_table, args, merged_data_table_copy, bins, fs,
                   ff_driver, page, waited, m, screenshot_image, raised_at>>
    /\ UNCHANGED <<joinVars, zipKeyVars, callVars, exportVars>>

\* While render_map runs, the other programs of the repository are idle.
JoinIdle ==
    /\ prepare = "none"
    /\ dropna_geometry = FALSE
    /\ shape_data = <<>>
    /\ census_data = <<>>
    /\ merged_shape_data_table = <<>>
    /\ jpc = "idle"

ZipKeyIdle ==
    /\ zcol = "none"
    /\ zkey0 = <<>>
    /\ zkey = <<>>
    /\ zn = 0

\* The caller has started its first call; it holds the table it passed.
CallInit ==
    /\ calls = 1
    /\ first = <<>>
    /\ table_before = merged_data_table

CallIdle ==
    /\ calls = 0
    /\ first = <<>>
    /\ table_before = <<>>

ExportIdle ==
    /\ db_curr_enrollment = <<>>
    /\ df_curr_enrollment = <<>>
    /\ ws_cells = <<>>
    /\ ws_cells_before = <<>>
    /\ epc = "idle"
    /\ eraised_at = "none"

Init ==
    /\ RenderInit
    /\ CallInit
    /\ JoinIdle
    /\ ZipKeyIdle
    /\ ExportIdle

Next ==
    \/ DropNa
    \/ Multiply
    \/ Round
    \/ Truncate
    \/ ComputeBins
    \/ BuildMap
    \/ Save
    \/ SkipImage
    \/ Firefox
    \/ SetWindowSize
    \/ Get
    \/ Sleep
    \/ GetScreenshotAsFile
    \/ Quit
    \/ Return

Spec == Init /\ [][Next]_vars

---------------------------------------------------------------------------
\* Properties of render_map.

\* The statements of the snapshot stage (lines 435-459).
SnapshotStages ==
    {"generate_image", "set_window_size", "get", "sleep",
     "get_screenshot_as_file", "quit"}

\* The call has ended, by return or by exception.
Ended ==
    pc \in {"returned", "raised"}

\* The snapshot stage failed: one of its statements raised, or the
\* screenshot was not written.
SnapshotFailed ==
    \/ pc = "raised" /\ raised_at \in SnapshotStages
    \/ screenshot_image = "False"

\* The bin edges have been computed (line 340 or 329 is behind).
BinsDone ==
    /\ pc \notin {"dropna", "multiply", "round", "truncate", "bins"}
    /\ ~(pc = "raised" /\ raised_at = "bins")

\* The mapped values: the data column of the working copy.
Mapped ==
    Column(merged_data_table_copy)

Distinct(s) ==
    {s[i] : i \in DOMAIN s}

\* The classes (1..8) whose closed interval [edge i, edge i+1] holds v.
ClassesOf(v) ==
    {i \in 1..(Len(bins) - 1) : bins[i] <= Den * v /\ Den * v <= bins[i + 1]}

\* C1: when render_map has ended, by return or by an exception in any step
\* of the capture, no browser it launched is still running.
C1_BrowserQuitOnEveryExit ==
    Ended => ff_driver # "open"

\* C2: when the snapshot stage has failed, the .html file written at line 424
\* exists and still holds the map that was saved.
C2_HtmlSurvivesSnapshotFailure ==
    SnapshotFailed =>
        /\ fs[HtmlPath] # NoFile
        /\ fs[HtmlPath] = m
        /\ m = <<FoliumMap(merged_data_table_copy, bins)>>

C2_Witness ==
    /\ pc = "raised"
    /\ raised_at = "get_screenshot_as_file"
    /\ ff_driver = "open"
    /\ page = m
    /\ fs[HtmlPath] = m
    /\ m # NoFile

\* C3: when the snapshot stage has failed, render_map still ends by returning
\* the map to its caller.
C3_SnapshotFailureNotFatal ==
    (Ended /\ SnapshotFailed) => (pc = "returned" /\ outcome = "m")

\* C7: with bin_type 'equally_spaced' and at least two distinct mapped
\* values, the bin computation does not raise and gives 9 edges: the minimum,
\* min + k*(max-min)/8 for k = 1..7, and the maximum; the values 0, 10, ...,
\* 80 give the edges 0, 10, ..., 80.
C7_EquallySpacedEdges ==
    args.bin_type = "equally_spaced" =>
        /\ (pc = "raised" /\ raised_at = "bins") =>
               Cardinality(Distinct(Mapped)) < 2
        /\ BinsDone =>
               /\ Len(bins) = 9
               /\ bins[1] = 8 * SeqMin(Mapped)
               /\ bins[9] = 8 * SeqMax(Mapped)
               /\ \A k \in 1..7 :
                      bins[k + 1] = 8 * SeqMin(Mapped)
                                    + k * (SeqMax(Mapped) - SeqMin(Mapped))
               /\ Mapped = Column(ScenarioTable) =>
                      bins = [k \in 1..9 |->
                                 8 * (k - 1) * 10 * Pow10(FracDigits)]

C7_Witness ==
    /\ args.bin_type = "equally_spaced"
    /\ BinsDone
    /\ Mapped = Column(ScenarioTable)
    /\ Len(bins) = 9

\* C8: with bin_type 'percentiles' and a non-empty input, the bin computation
\* does not raise and gives 9 non-decreasing edges, the first the minimum and
\* the last the maximum of the mapped values, the middle one (the 50th
\* percentile) their median.
C8_PercentileEdges ==
    args.bin_type = "percentiles" =>
        /\ (pc = "raised" /\ raised_at = "bins") => Mapped = <<>>
        /\ BinsDone =>
               LET s == SortSeq(Mapped, LAMBDA a, b : a < b)
                   n == Len(s)
               IN  /\ Len(bins) = 9
                   /\ \A k \in 1..8 : bins[k] <= bins[k + 1]
                   /\ bins[1] = 8 * SeqMin(Mapped)
                   /\ bins[9] = 8 * SeqMax(Mapped)
                   /\ bins[5] = IF n % 2 = 1
                                THEN 8 * s[(n + 1) \div 2]
                                ELSE 4 * (s[n \div 2] + s[n \div 2 + 1])

C8_Witness ==
    /\ args.bin_type = "percentiles"
    /\ BinsDone
    /\ Cardinality(Distinct(Mapped)) >= 2
    /\ \E i \in 1..(Len(Mapped) - 1) : Mapped[i] > Mapped[i + 1]
    /\ \E k \in 1..9 : bins[k] % 8 # 0

\* C9 as stated: every mapped value lies in exactly one class, counting both
\* edges of a class as inside it.
C9_ExactlyOneClass ==
    BinsDone =>
        \A i \in DOMAIN Mapped : Cardinality(ClassesOf(Mapped[i])) = 1

\* C9 amended: every mapped value lies in at least one class, and in more
\* than one only when it equals an interior edge.
C9_AtLeastOneClass ==
    BinsDone =>
        \A i \in DOMAIN Mapped :
            /\ ClassesOf(Mapped[i]) # {}
            /\ Cardinality(ClassesOf(Mapped[i])) > 1 =>
                   \E k \in 2..(Len(bins) - 1) : bins[k] = Den * Mapped[i]

C9_Witness ==
    /\ BinsDone
    /\ args.bin_type = "equally_spaced"
    /\ \E i \in DOMAIN Mapped : Cardinality(ClassesOf(Mapped[i])) = 1
    /\ \E i \in DOMAIN Mapped : Cardinality(ClassesOf(Mapped[i])) = 2

\* The working copy after each stage of lines 300-323, from the arguments.
AfterDropNa == DropNaValue(merged_data_table)

AfterMultiply == MultiplyColumn(AfterDropNa, args.multiply_data_by)

AfterRound == RoundColumn(AfterMultiply, args.variable_decimals)

AfterTruncate == TruncateRows(AfterRound, args.rows_to_map)

\* C10: the copy is the table with null rows dropped, then scaled, then
\* rounded, then truncated (0 keeps all rows), in that order; the edges are
\* computed only then, from exactly the values of that copy, and every mapped
\* value lies within [first edge, last edge].
C10_OrderOfProcessing ==
    /\ pc = "multiply" => merged_data_table_copy = AfterDropNa
    /\ pc = "round" => merged_data_table_copy = AfterMultiply
    /\ pc = "truncate" => merged_data_table_copy = AfterRound
    /\ pc = "bins" => merged_data_table_copy = AfterTruncate /\ bins = <<>>
    /\ BinsDone =>
           /\ merged_data_table_copy = AfterTruncate
           /\ args.rows_to_map = 0 => Len(Mapped) = Len(AfterDropNa)
           /\ args.rows_to_map > 0 =>
                  Len(Mapped) = Min2(args.rows_to_map, Len(AfterDropNa))
           /\ bins = IF args.bin_type = "percentiles"
                     THEN PercentileBins(Column(AfterTruncate))
                     ELSE EquallySpacedBins(Column(AfterTruncate))
           /\ \A i \in DOMAIN Mapped :
                  bins[1] <= Den * Mapped[i] /\ Den * Mapped[i] <= bins[Len(bins)]

C10_Witness ==
    /\ BinsDone
    /\ args.rows_to_map > 0
    /\ Len(AfterRound) > args.rows_to_map
    /\ AfterRound # AfterMultiply
    /\ AfterMultiply # AfterDropNa
    /\ AfterDropNa # merged_data_table
    /\ SeqMax(Column(AfterRound)) > SeqMax(Mapped)

\* The bin types render_map knows (lines 325, 334).
RecognizedBinTypes ==
    {"percentiles", "equally_spaced"}

\* C11: with a bin_type other than 'percentiles' and 'equally_spaced' the
\* call fails with an error, at the bins step, before any side effect: no
\* map is built, no .html file written, no browser launched, no screenshot
\* taken.
C11_UnknownBinTypeFailsFirst ==
    args.bin_type \notin RecognizedBinTypes =>
        /\ pc \in {"dropna", "multiply", "round", "truncate", "bins", "raised"}
        /\ pc = "raised" => raised_at = "bins" /\ outcome = "TypeError"
        /\ \A p \in Paths : fs[p] = NoFile
        /\ m = NoFile
        /\ ff_driver = "none"
        /\ page = NoFile
        /\ screenshot_image = "unset"

C11_Witness ==
    /\ args.bin_type \notin RecognizedBinTypes
    /\ pc = "raised"
    /\ outcome = "TypeError"
    /\ Mapped # <<>>

\* All mapped values are equal: the equal-width increment is 0.
DegenerateEqualWidth ==
    /\ args.bin_type = "equally_spaced"
    /\ pc \notin {"dropna", "multiply", "round", "truncate", "bins"}
    /\ Mapped # <<>>
    /\ SeqMin(Mapped) = SeqMax(Mapped)

\* C13: when all mapped values are equal, the 'equally_spaced' computation
\* does not end in an error: it gives a valid edge sequence (at least two
\* edges, non-decreasing) in which every value falls in a single class.
C13_DegenerateEqualWidthIsValid ==
    DegenerateEqualWidth =>
        /\ ~(pc = "raised" /\ raised_at = "bins")
        /\ Len(bins) >= 2
        /\ \A i \in 1..(Len(bins) - 1) : bins[i] <= bins[i + 1]
        /\ \A i \in DOMAIN Mapped : Cardinality(ClassesOf(Mapped[i])) = 1

\* C14: the stages run strictly in order.  The .html file is saved in full
\* before the browser is launched and before the browser loads it; the
\* render delay elapses after the load and before the screenshot; the
\* screenshot is taken before the browser is quit; and a screenshot pictures
\* nothing but the saved document.
C14_StagesInOrder ==
    /\ ff_driver # "none" => m # NoFile /\ fs[HtmlPath] = m
    /\ page # NoFile => ff_driver # "none" /\ page = fs[HtmlPath]
    /\ waited => page # NoFile
    /\ pc = "get_screenshot_as_file" => waited /\ ff_driver = "open"
    /\ screenshot_image # "unset" => waited /\ page = fs[HtmlPath]
    /\ ff_driver = "quit" => screenshot_image # "unset"
    /\ fs[ScreenshotPath] # NoFile =>
           /\ screenshot_image # "unset"
           /\ fs[ScreenshotPath] \in {<<Png(fs[HtmlPath][1])>>, <<Partial>>}

C14_Witness ==
    /\ pc = "returned"
    /\ ff_driver = "quit"
    /\ waited
    /\ screenshot_image = "True"
    /\ fs[ScreenshotPath] = <<Png(m[1])>>

---------------------------------------------------------------------------
\* Two calls of render_map by one caller, on the same table and with the same
\* paths: the second with the same arguments, or with generate_image
\* switched.

\* The longest table the caller passes.
MaxBatchRows == 2

BatchTables ==
    UNION {TablesOfLen(n) : n \in 0..MaxBatchRows}

BatchArgSets ==
    [multiply_data_by  : {3},
     variable_decimals : {0},
     rows_to_map       : {0, 1},
     bin_type          : {"percentiles", "equally_spaced", "quantiles"},
     generate_image    : BOOLEAN]

BatchInit ==
    /\ merged_data_table \in BatchTables
    /\ args \in BatchArgSets
    /\ merged_data_table_copy = <<>>
    /\ bins = <<>>
    /\ fs = [p \in Paths |-> NoFile]
    /\ ff_driver = "none"
    /\ page = NoFile
    /\ waited = FALSE
    /\ m = NoFile
    /\ screenshot_image = "unset"
    /\ pc = "dropna"
    /\ raised_at = "none"
    /\ outcome = "none"

\* What a call that is over has left behind.
CallRecord ==
    [args      |-> args,
     rows      |-> merged_data_table_copy,
     bins      |-> bins,
     html      |-> fs[HtmlPath],
     png       |-> fs[ScreenshotPath],
     pc        |-> pc,
     raised_at |-> raised_at]

\* The caller calls render_map again (line 182): the locals of the new call
\* are unbound, the caller's table and the files are as the first call left
\* them.  (A browser the first call left running is not followed further:
\* ff_driver is the new call's local name.)
CallAgain ==
    /\ calls = 1
    /\ pc \in {"returned", "raised"}
    /\ calls' = 2
    /\ first' = <<CallRecord>>
    /\ args' \in {args, [args EXCEPT !.generate_image = ~@]}
    /\ merged_data_table_copy' = <<>>
    /\ bins' = <<>>
    /\ ff_driver' = "none"
    /\ page' = NoFile
    /\ waited' = FALSE
    /\ m' = NoFile
    /\ screenshot_image' = "unset"
    /\ pc' = "dropna"
    /\ raised_at' = "none"
    /\ outcome' = "none"
    /\ UNCHANGED <<merged_data_table, fs, table_before>>
    /\ UNCHANGED <<joinVars, zipKeyVars, exportVars>>

InitBatch ==
    /\ BatchInit
    /\ CallInit
    /\ JoinIdle
    /\ ZipKeyIdle
    /\ ExportIdle

NextBatch ==
    \/ DropNa
    \/ Multiply
    \/ Round
    \/ Truncate
    \/ ComputeBins
    \/ BuildMap
    \/ Save
    \/ SkipImage
    \/ Firefox
    \/ SetWindowSize
    \/ Get
    \/ Sleep
    \/ GetScreenshotAsFile
    \/ Quit
    \/ Return
    \/ CallAgain

SpecBatch == InitBatch /\ [][NextBatch]_vars

\* A call at statement p (raised at r, if raised) has saved its .html file.
HtmlSaved(p, r) ==
    \/ p \in SnapshotStages \cup {"return", "returned"}
    \/ p = "raised" /\ r \in SnapshotStages

\* The second call differs from the first in generate_image only.
FlagSwitched ==
    /\ calls = 2
    /\ args = [first[1].args EXCEPT !.generate_image = ~@]

\* C12: a call with generate_image disabled writes an .html file with the
\* same layers and content as the call with it enabled; the flag changes
\* only whether a browser is launched and a .png written.
C12_SameHtmlWithoutImage ==
    /\ (FlagSwitched /\ HtmlSaved(pc, raised_at)
            /\ HtmlSaved(first[1].pc, first[1].raised_at)) =>
           /\ fs[HtmlPath] = m
           /\ fs[HtmlPath] # NoFile
           /\ fs[HtmlPath] = first[1].html
    /\ (FlagSwitched /\ BinsDone /\ first[1].raised_at # "bins") =>
           /\ bins = first[1].bins
           /\ merged_data_table_copy = first[1].rows
    /\ (FlagSwitched /\ pc = "raised" /\ raised_at = "bins") =>
           first[1].raised_at = "bins"
    /\ ~args.generate_image =>
           /\ ff_driver = "none"
           /\ page = NoFile
           /\ screenshot_image = "unset"
           /\ fs[ScreenshotPath] = IF calls = 2 THEN first[1].png ELSE NoFile

C12_Witness ==
    /\ FlagSwitched
    /\ ~first[1].args.generate_image
    /\ first[1].pc = "returned"
    /\ pc = "returned"
    /\ fs[ScreenshotPath] # NoFile
    /\ fs[HtmlPath] = first[1].html
    /\ Len(fs[HtmlPath][1].rows) > 1

\* C15: render_map never modifies the caller's table: after any call,
\* returned or failed, the table is what it was before the call; and two
\* successive calls with the same arguments compute the same bin edges and
\* map the same rows.
C15_CallerTableUnmodified ==
    /\ merged_data_table = table_before
    /\ (calls = 2 /\ args = first[1].args) =>
           /\ (BinsDone /\ first[1].raised_at # "bins") =>
                  /\ bins = first[1].bins
                  /\ merged_data_table_copy = first[1].rows
           /\ (pc = "raised" /\ raised_at = "bins") =>
                  first[1].raised_at = "bins"

C15_Witness ==
    /\ calls = 2
    /\ args = first[1].args
    /\ args.multiply_data_by # 1
    /\ pc = "returned"
    /\ first[1].pc = "raised"
    /\ first[1].raised_at \in SnapshotStages
    /\ bins = first[1].bins
    /\ Len(merged_data_table_copy) >= 1
    /\ Len(merged_data_table_copy) < Len(merged_data_table)
    /\ merged_data_table = table_before

---------------------------------------------------------------------------
\* prepare_zip_table, prepare_county_table, prepare_state_table: key columns.
\*
\* A cell of a key column is an integer (as read_csv gives for a numeric
\* column) or a string, held as the sequence of its characters' code points:
\* [t |-> "int", n |-> 501, s |-> <<>>]  or  [t |-> "str", n |-> 0, s |-> ...].
\* The key of a row is the sequence of its key cells: one for a zip code or a
\* state, two (state code, county code) for a county.

\* The longest key table drawn as an input.
MaxJoinRows == 2

\* The code point of the character '0' (fillchar = '0', line 63).
Chr0 == 48

\* The width zip codes are padded to (str.pad(5, ...), lines 63 and 85).
PadWidth == 5

IntCell(n) ==
    [t |-> "int", n |-> n, s |-> <<>>]

StrCell(str) ==
    [t |-> "str", n |-> 0, s |-> str]

\* The string of the decimal digits d, e.g. Digits(<<0,0,5,0,1>>) is "00501".
Digits(d) ==
    [i \in DOMAIN d |-> Chr0 + d[i]]

\* str(n) for an integer n >= 0: its decimal digits, no leading zeros.
RECURSIVE IntToStr(_)
IntToStr(n) ==
    IF n < 10 THEN <<Chr0 + n>>
    ELSE Append(IntToStr(n \div 10), Chr0 + (n % 10))

\* int(str) for a string of decimal digits.
RECURSIVE StrToInt(_)
StrToInt(str) ==
    IF str = <<>> THEN 0
    ELSE 10 * StrToInt(SubSeq(str, 1, Len(str) - 1)) + (str[Len(str)] - Chr0)

\* column.astype(str), on one cell (lines 63, 84-85).
AsTypeStr(c) ==
    IF c.t = "str" THEN c ELSE StrCell(IntToStr(c.n))

\* column.astype(int), on one cell (lines 137-140, 145-148).
AsTypeInt(c) ==
    IF c.t = "int" THEN c ELSE IntCell(StrToInt(c.s))

\* pandas' str.pad(width, side, fillchar) on one string: a string shorter than
\* width is filled up to width on the given side, any other is left as it is.
StrPad(str, width, side, fillchar) ==
    LET fill == [i \in 1..(width - Len(str)) |-> fillchar]
    IN  IF Len(str) >= width THEN str
        ELSE IF side = "left" THEN fill \o str
        ELSE str \o fill

\* lines 62-63: shape_data[shape_feature_name].astype(str).str.pad(5,
\* fillchar = '0'); side is str.pad's default, 'left'.
ShapeZipKey(c) ==
    StrCell(StrPad(AsTypeStr(c).s, PadWidth, "left", Chr0))

\* A variant of DataZipKey that pads on the right.
DataZipKey_PadRight(c) ==
    StrCell(StrPad(AsTypeStr(c).s, PadWidth, "right", Chr0))

\* lines 84-85: census_data[data_feature_name].astype(str).str.pad(5,
\* fillchar = '0').
DataZipKey(c) ==
    StrCell(StrPad(AsTypeStr(c).s, PadWidth, "left", Chr0))

\* The column assignment of lines 62-63, over the rows of the table.
ShapeZipKeyColumn(t) ==
    [i \in DOMAIN t |->
        [t[i] EXCEPT !.key = [k \in DOMAIN @ |-> ShapeZipKey(@[k])]]]

\* The column assignment of lines 84-85, over the rows of the table.
DataZipKeyColumn(t) ==
    [i \in DOMAIN t |->
        [t[i] EXCEPT !.key = [k \in DOMAIN @ |-> DataZipKey(@[k])]]]

\* The column assignments of lines 137-140 and of lines 145-148: the state
\* code column and the county code column, each cast to int.
CodeColumnsAsInt(t) ==
    [i \in DOMAIN t |->
        [t[i] EXCEPT !.key = [k \in DOMAIN @ |-> AsTypeInt(@[k])]]]

\* shape_data.simplify(tolerance = tolerance), lines 80, 142, 169: every
\* geometry is simplified; a missing geometry stays missing.
Simplified(t) ==
    [i \in DOMAIN t |->
        [t[i] EXCEPT !.geometry = IF @ = "none" THEN "none" ELSE "simplified"]]

---------------------------------------------------------------------------
\* The merge.  A row of the merged table is [shape, data]: the shape row and
\* the data row it was made of, each <<>> (all its columns null) or <<row>>.

RECURSIVE SeqLess(_, _)
SeqLess(a, b) ==
    IF b = <<>> THEN FALSE
    ELSE IF a = <<>> THEN TRUE
    ELSE IF Head(a) # Head(b) THEN Head(a) < Head(b)
    ELSE SeqLess(Tail(a), Tail(b))

\* The order of two keys of the same column types, column by column.
RECURSIVE KeyLess(_, _)
KeyLess(a, b) ==
    IF a = <<>> \/ b = <<>> THEN FALSE
    ELSE IF Head(a) = Head(b) THEN KeyLess(Tail(a), Tail(b))
    ELSE IF Head(a).t = "int" THEN Head(a).n < Head(b).n
    ELSE SeqLess(Head(a).s, Head(b).s)

MergedKey(r) ==
    IF r.shape # <<>> THEN r.shape[1].key ELSE r.data[1].key

\* The rows of the right table whose key equals k, in order.
Matches(right, k) ==
    SelectSeq(right, LAMBDA d : d.key = k)

\* The merged rows the left rows give, in left order: one per matching right
\* row, or one with a null right side when none matches and keepLeft.
RECURSIVE LeftRows(_, _, _)
LeftRows(left, right, keepLeft) ==
    IF left = <<>> THEN <<>>
    ELSE LET l  == Head(left)
             ms == Matches(right, l.key)
             here == IF ms # <<>>
                     THEN [j \in DOMAIN ms |-> [shape |-> <<l>>, data |-> <<ms[j]>>]]
                     ELSE IF keepLeft THEN <<[shape |-> <<l>>, data |-> <<>>]>>
                     ELSE <<>>
         IN  here \o LeftRows(Tail(left), right, keepLeft)

\* The right rows no left row matches, with a null left side.
RightOnly(left, right) ==
    LET un == SelectSeq(right, LAMBDA d : \A i \in DOMAIN left : left[i].key # d.key)
    IN  [j \in DOMAIN un |-> [shape |-> <<>>, data |-> <<un[j]>>]]

\* pd.merge(left, right, left_on, right_on, how): 'inner' keeps the matching
\* pairs; 'outer' also keeps the unmatched rows of both sides, nulls on the
\* missing side, and orders the result by key.
PdMerge(left, right, how) ==
    IF how = "outer"
    THEN SortSeq(LeftRows(left, right, TRUE) \o RightOnly(left, right),
                 LAMBDA a, b : KeyLess(MergedKey(a), MergedKey(b)))
    ELSE LeftRows(left, right, FALSE)

\* A variant of CountyMerged that joins with how = 'inner'.
CountyMerged_Inner(shape, census) ==
    PdMerge(shape, census, "inner")

\* lines 93-94
ZipMerged(shape, census) ==
    PdMerge(shape, census, "outer")

\* lines 150-152
CountyMerged(shape, census) ==
    PdMerge(shape, census, "outer")

\* lines 173-174
StateMerged(shape, census) ==
    PdMerge(shape, census, "outer")

\* The geometry column of a merged row is null.
GeometryIsNull(r) ==
    r.shape = <<>> \/ r.shape[1].geometry = "none"

\* A variant of DropNaGeometry without subset: drops a row with any null.
DropNaGeometry_AnyNull(t) ==
    SelectSeq(t, LAMBDA r : ~GeometryIsNull(r) /\ r.data # <<>>)

\* merged_shape_data_table.dropna(subset = 'geometry', inplace = True),
\* lines 102, 154, 176.
DropNaGeometry(t) ==
    SelectSeq(t, LAMBDA r : ~GeometryIsNull(r))

---------------------------------------------------------------------------
\* The inputs of the three prepare functions: what geopandas.read_file and
\* pd.read_csv returned (lines 61 and 83, 123 and 144, 167 and 171).

ShapeKeys(fn) ==
    CASE fn = "zip" ->
           {<<StrCell(Digits(<<0, 0, 5, 0, 1>>))>>,
            <<StrCell(Digits(<<0, 0, 5, 4, 4>>))>>,
            <<IntCell(501)>>}
      [] fn = "county" ->
           {<<StrCell(Digits(<<5, 1>>)), StrCell(Digits(<<0, 5, 9>>))>>,
            <<StrCell(Digits(<<5, 1>>)), StrCell(Digits(<<0, 0, 1>>))>>,
            <<StrCell(Digits(<<0, 1>>)), StrCell(Digits(<<0, 0, 1>>))>>}
      [] fn = "state" ->
           {<<StrCell(Digits(<<5, 1>>))>>,
            <<StrCell(Digits(<<2, 4>>))>>,
            <<StrCell(Digits(<<0, 5, 1>>))>>}

DataKeys(fn) ==
    CASE fn = "zip" ->
           {<<IntCell(501)>>,
            <<IntCell(99999)>>,
            <<StrCell(Digits(<<0, 0, 5, 4, 4>>))>>}
      [] fn = "county" ->
           {<<IntCell(51), IntCell(59)>>,
            <<IntCell(1), IntCell(1)>>,
            <<StrCell(Digits(<<5, 1>>)), StrCell(Digits(<<1>>))>>}
      [] fn = "state" ->
           {<<StrCell(Digits(<<5, 1>>))>>,
            <<StrCell(Digits(<<2, 4>>))>>,
            <<StrCell(Digits(<<1, 1>>))>>}

\* The shape tables of n rows: a key and a geometry (or none) per row.
ShapeTables(fn, n) ==
    {[i \in 1..n |-> [id |-> i, key |-> c[i][1], geometry |-> c[i][2]]] :
        c \in [1..n -> ShapeKeys(fn) \X {"raw", "none"}]}

\* The data tables of n rows: a key and a value per row.
DataTables(fn, n) ==
    {[i \in 1..n |-> [id |-> i, key |-> c[i], value |-> 10 * i]] :
        c \in [1..n -> DataKeys(fn)]}

JoinInit ==
    /\ prepare \in {"zip", "county", "state"}
    /\ dropna_geometry \in BOOLEAN
    /\ shape_data \in UNION {ShapeTables(prepare, n) : n \in 0..MaxJoinRows}
    /\ census_data \in UNION {DataTables(prepare, n) : n \in 0..MaxJoinRows}
    /\ merged_shape_data_table = <<>>
    /\ jpc = IF prepare = "state" THEN "simplify" ELSE "shape_key"

\* One statement of the function fn, from label `from` to label `to`.
JoinStep(fn, from, to) ==
    /\ prepare = fn
    /\ jpc = from
    /\ jpc' = to
    /\ UNCHANGED <<prepare, dropna_geometry, renderVars, zipKeyVars, callVars,
                   exportVars>>

---------------------------------------------------------------------------
\* prepare_zip_table

\* lines 62-63
ZipShapeKey ==
    /\ JoinStep("zip", "shape_key", "simplify")
    /\ shape_data' = ShapeZipKeyColumn(shape_data)
    /\ UNCHANGED <<census_data, merged_shape_data_table>>

\* line 80
ZipSimplify ==
    /\ JoinStep("zip", "simplify", "data_key")
    /\ shape_data' = Simplified(shape_data)
    /\ UNCHANGED <<census_data, merged_shape_data_table>>

\* lines 84-85
ZipDataKey ==
    /\ JoinStep("zip", "data_key", "merge")
    /\ census_data' = DataZipKeyColumn(census_data)
    /\ UNCHANGED <<shape_data, merged_shape_data_table>>

\* lines 93-94
ZipMerge ==
    /\ JoinStep("zip", "merge", "dropna")
    /\ merged_shape_data_table' = ZipMerged(shape_data, census_data)
    /\ UNCHANGED <<shape_data, census_data>>

\* lines 101-103
ZipDropNa ==
    /\ JoinStep("zip", "dropna", "returned")
    /\ merged_shape_data_table' =
           IF dropna_geometry = TRUE
           THEN DropNaGeometry(merged_shape_data_table)
           ELSE merged_shape_data_table
    /\ UNCHANGED <<shape_data, census_data>>

---------------------------------------------------------------------------
\* prepare_county_table

\* lines 131-140
CountyShapeKey ==
    /\ JoinStep("county", "shape_key", "simplify")
    /\ shape_data' = CodeColumnsAsInt(shape_data)
    /\ UNCHANGED <<census_data, merged_shape_data_table>>

\* line 142
CountySimplify ==
    /\ JoinStep("county", "simplify", "data_key")
    /\ shape_data' = Simplified(shape_data)
    /\ UNCHANGED <<census_data, merged_shape_data_table>>

\* lines 145-148
CountyDataKey ==
    /\ JoinStep("county", "data_key", "merge")
    /\ census_data' = CodeColumnsAsInt(census_data)
    /\ UNCHANGED <<shape_data, merged_shape_data_table>>

\* lines 150-152
CountyMerge ==
    /\ JoinStep("county", "merge", "dropna")
    /\ merged_shape_data_table' = CountyMerged(shape_data, census_data)
    /\ UNCHANGED <<shape_data, census_data>>

\* lines 153-155
CountyDropNa ==
    /\ JoinStep("county", "dropna", "returned")
    /\ merged_shape_data_table' =
           IF dropna_geometry = TRUE
           THEN DropNaGeometry(merged_shape_data_table)
           ELSE merged_shape_data_table
    /\ UNCHANGED <<shape_data, census_data>>

---------------------------------------------------------------------------
\* prepare_state_table: the keys are merged as read.

\* line 169
StateSimplify ==
    /\ JoinStep("state", "simplify", "merge")
    /\ shape_data' = Simplified(shape_data)
    /\ UNCHANGED <<census_data, merged_shape_data_table>>

\* lines 173-174
StateMerge ==
    /\ JoinStep("state", "merge", "dropna")
    /\ merged_shape_data_table' = StateMerged(shape_data, census_data)
    /\ UNCHANGED <<shape_data, census_data>>

\* lines 175-177
StateDropNa ==
    /\ JoinStep("state", "dropna", "returned")
    /\ merged_shape_data_table' =
           IF dropna_geometry = TRUE
           THEN DropNaGeometry(merged_shape_data_table)
           ELSE merged_shape_data_table
    /\ UNCHANGED <<shape_data, census_data>>

\* While a prepare function runs, render_map is not running.
RenderIdle ==
    /\ merged_data_table = <<>>
    /\ args = [multiply_data_by |-> 1, variable_decimals |-> 4,
               rows_to_map |-> 0, bin_type |-> "percentiles",
               generate_image |-> TRUE]
    /\ merged_data_table_copy = <<>>
    /\ bins = <<>>
    /\ fs = [p \in Paths |-> NoFile]
    /\ ff_driver = "none"
    /\ page = NoFile
    /\ waited = FALSE
    /\ m = NoFile
    /\ screenshot_image = "unset"
    /\ pc = "idle"
    /\ raised_at = "none"
    /\ outcome = "none"

InitJoin ==
    /\ JoinInit
    /\ RenderIdle
    /\ ZipKeyIdle
    /\ CallIdle
    /\ ExportIdle

NextJoin ==
    \/ ZipShapeKey
    \/ ZipSimplify
    \/ ZipDataKey
    \/ ZipMerge
    \/ ZipDropNa
    \/ CountyShapeKey
    \/ CountySimplify
    \/ CountyDataKey
    \/ CountyMerge
    \/ CountyDropNa
    \/ StateSimplify
    \/ StateMerge
    \/ StateDropNa

SpecJoin == InitJoin /\ [][NextJoin]_vars

---------------------------------------------------------------------------
\* Properties of the prepare functions.

Max2(a, b) ==
    IF a >= b THEN a ELSE b

UniqueKeys(t) ==
    \A i, j \in DOMAIN t : t[i].key = t[j].key => i = j

\* The merged table holds shape row l / data row d.
HoldsShape(t, l) ==
    \E k \in DOMAIN t : t[k].shape = <<l>>

HoldsData(t, d) ==
    \E k \in DOMAIN t : t[k].data = <<d>>

\* C4: after the merge of each of the three functions every shape row and
\* every data row is in the merged table, a row's missing side is null only
\* when no row of that side has its key, and with unique keys the merged
\* table is at least as long as the longer input; in the returned table a
\* row is absent only if dropna_geometry removed it.
C4_OuterJoin ==
    LET t == merged_shape_data_table
    IN  /\ jpc = "dropna" =>
               /\ \A i \in DOMAIN shape_data : HoldsShape(t, shape_data[i])
               /\ \A j \in DOMAIN census_data : HoldsData(t, census_data[j])
               /\ \A k \in DOMAIN t :
                      /\ t[k].shape # <<>> \/ t[k].data # <<>>
                      /\ (t[k].shape # <<>> /\ t[k].data # <<>>) =>
                             t[k].shape[1].key = t[k].data[1].key
                      /\ t[k].data = <<>> =>
                             \A j \in DOMAIN census_data :
                                 census_data[j].key # t[k].shape[1].key
                      /\ t[k].shape = <<>> =>
                             \A i \in DOMAIN shape_data :
                                 shape_data[i].key # t[k].data[1].key
               /\ (UniqueKeys(shape_data) /\ UniqueKeys(census_data)) =>
                      Len(t) >= Max2(Len(shape_data), Len(census_data))
        /\ jpc = "returned" =>
               /\ \A i \in DOMAIN shape_data :
                      ~HoldsShape(t, shape_data[i]) =>
                          dropna_geometry /\ shape_data[i].geometry = "none"
               /\ \A j \in DOMAIN census_data :
                      ~HoldsData(t, census_data[j]) =>
                          /\ dropna_geometry
                          /\ \A i \in DOMAIN shape_data :
                                 shape_data[i].key = census_data[j].key =>
                                     shape_data[i].geometry = "none"

\* The scenario: shapes 00501 and 00544, data 501 and 99999, three merged rows.
C4_Witness ==
    /\ prepare = "zip"
    /\ jpc = "dropna"
    /\ Len(shape_data) = 2
    /\ Len(census_data) = 2
    /\ shape_data[1].key = <<StrCell(Digits(<<0, 0, 5, 0, 1>>))>>
    /\ shape_data[2].key = <<StrCell(Digits(<<0, 0, 5, 4, 4>>))>>
    /\ census_data[1].key = <<StrCell(Digits(<<0, 0, 5, 0, 1>>))>>
    /\ census_data[2].key = <<StrCell(Digits(<<9, 9, 9, 9, 9>>))>>
    /\ Len(merged_shape_data_table) = 3
    /\ merged_shape_data_table[1].data = <<census_data[1]>>
    /\ merged_shape_data_table[2].data = <<>>
    /\ merged_shape_data_table[3].shape = <<>>

\* C5: with dropna_geometry true the returned table is the merged table
\* without exactly its rows whose geometry is null, so every row that has a
\* geometry stays, with or without attribute values; with dropna_geometry
\* false it is the whole merged table.
C5_DropNaGeometry ==
    jpc = "returned" =>
        LET merged == PdMerge(shape_data, census_data, "outer")
            hasGeometry(r) == r.shape # <<>> /\ r.shape[1].geometry # "none"
            t == merged_shape_data_table
        IN  IF dropna_geometry
            THEN /\ t = SelectSeq(merged, hasGeometry)
                 /\ \A k \in DOMAIN merged :
                        (hasGeometry(merged[k]) /\ merged[k].data = <<>>) =>
                            \E n \in DOMAIN t : t[n] = merged[k]
                 /\ \A n \in DOMAIN t : hasGeometry(t[n])
            ELSE t = merged

C5_Witness ==
    /\ jpc = "returned"
    /\ prepare = "state"
    /\ dropna_geometry
    /\ \E n \in DOMAIN merged_shape_data_table :
           merged_shape_data_table[n].data = <<>>
    /\ Len(merged_shape_data_table)
           < Len(PdMerge(shape_data, census_data, "outer"))

---------------------------------------------------------------------------
\* The zip-code key normalisation of prepare_zip_table on one key, applied
\* once (as the function does) and once more (to its own result).

\* The longest key string drawn as an input.
MaxKeyLen == 6

\* All strings of length n over the characters '0' and '5'.
KeyStrings(n) ==
    [1..n -> {Chr0, Chr0 + 5}]

\* The keys as read from a file: strings of up to MaxKeyLen characters, and
\* integers with fewer than five, five and more than five digits.
RawKeys ==
    {StrCell(str) : str \in UNION {KeyStrings(n) : n \in 0..MaxKeyLen}}
        \cup {IntCell(n) : n \in {0, 7, 42, 501, 5753, 22101, 99999, 100000}}

ZipKeyInit ==
    /\ zcol \in {"shape", "data"}
    /\ zkey0 \in RawKeys
    /\ zkey = zkey0
    /\ zn = 0

\* lines 62-63, on one key of the shapefile's column
NormalizeShapeKey ==
    /\ zcol = "shape"
    /\ zn < 2
    /\ zkey' = ShapeZipKey(zkey)
    /\ zn' = zn + 1
    /\ UNCHANGED <<zcol, zkey0, renderVars, joinVars, callVars, exportVars>>

\* lines 84-85, on one key of the data file's column
NormalizeDataKey ==
    /\ zcol = "data"
    /\ zn < 2
    /\ zkey' = DataZipKey(zkey)
    /\ zn' = zn + 1
    /\ UNCHANGED <<zcol, zkey0, renderVars, joinVars, callVars, exportVars>>

InitZipKey ==
    /\ ZipKeyInit
    /\ RenderIdle
    /\ JoinIdle
    /\ CallIdle
    /\ ExportIdle

NextZipKey ==
    \/ NormalizeShapeKey
    \/ NormalizeDataKey

SpecZipKey == InitZipKey /\ [][NextZipKey]_vars

\* C6: the normalised key is a string; a key whose text is shorter than 5
\* characters becomes exactly 5 characters, '0's followed by that text; a key
\* of 5 (or more) characters is its text unchanged; and normalising the
\* result again (zn = 2) gives the same.
C6_ZipKeyPadding ==
    zn >= 1 =>
        LET text == IF zkey0.t = "str" THEN zkey0.s ELSE IntToStr(zkey0.n)
            short == 5 - Len(text)
        IN  /\ zkey.t = "str"
            /\ zkey0.t = "int" => StrToInt(zkey.s) = zkey0.n
            /\ Len(text) < 5 =>
                   /\ Len(zkey.s) = 5
                   /\ \A i \in 1..short : zkey.s[i] = 48
                   /\ SubSeq(zkey.s, short + 1, 5) = text
            /\ Len(text) >= 5 => zkey.s = text

C6_Witness ==
    /\ zn = 2
    /\ zcol = "data"
    /\ zkey0 = IntCell(501)
    /\ zkey = StrCell(Digits(<<0, 0, 5, 0, 1>>))

---------------------------------------------------------------------------
\* sharing_database_data.py: the curr_enrollment table of the database is
\* read into a DataFrame and written to a worksheet of a Google Sheets
\* workbook.  The script is straight-line code: an exception ends it.

\* The most rows the curr_enrollment table holds.
MaxDbRows == 2

\* The worksheet's grid: two columns, and two rows more than the longest
\* export (header and rows) fills.
Grid ==
    (1..(MaxDbRows + 2)) \X (1..2)

\* A cell without a value.
Blank == ""

\* The rows a table of n columns may hold.
DbRowsOf(n) ==
    IF n = 1 THEN {<<"a">>, <<"b">>} ELSE {<<"a", "b">>, <<"b", "a">>}

DbColumns(n) ==
    SubSeq(<<"student_id", "school">>, 1, n)

\* The tables curr_enrollment may be: one or two columns, 0..MaxDbRows rows.
EnrollmentTables ==
    {[columns |-> DbColumns(n), rows |-> rs] :
        <<n, rs>> \in UNION {{n} \X [1..k -> DbRowsOf(n)] :
                                <<n, k>> \in {1, 2} \X (0..MaxDbRows)}}

\* What an earlier use left in the worksheet: any cell may hold a value.
Worksheets ==
    [Grid -> {Blank, "old"}]

ExportInit ==
    /\ db_curr_enrollment \in EnrollmentTables
    /\ df_curr_enrollment = <<>>
    /\ ws_cells \in Worksheets
    /\ ws_cells_before = ws_cells
    /\ epc = "read_schema"
    /\ eraised_at = "none"

\* The statement at epc raises: the script ends there.
ERaise ==
    /\ eraised_at' = epc
    /\ epc' = "raised"

EGoto(next) ==
    /\ epc' = next
    /\ eraised_at' = eraised_at

\* A statement that only reads, connects or opens: it passes or raises.
ExportStep(from, to) ==
    /\ epc = from
    /\ EGoto(to) \/ ERaise
    /\ UNCHANGED <<db_curr_enrollment, df_curr_enrollment, ws_cells,
                   ws_cells_before>>
    /\ UNCHANGED <<renderVars, joinVars, zipKeyVars, callVars>>

\* lines 62-73: create_engine, and the read of sqlite_schema
ReadSchema ==
    ExportStep("read_schema", "read_sql")

\* lines 76-77: pd.read_sql("Select * from curr_enrollment")
ReadSql ==
    /\ epc = "read_sql"
    /\ \/ df_curr_enrollment' = <<db_curr_enrollment>> /\ EGoto("service_account")
       \/ df_curr_enrollment' = df_curr_enrollment /\ ERaise
    /\ UNCHANGED <<db_curr_enrollment, ws_cells, ws_cells_before>>
    /\ UNCHANGED <<renderVars, joinVars, zipKeyVars, callVars>>

\* lines 86-89: gspread.service_account(service_key_path)
ServiceAccount ==
    ExportStep("service_account", "open_by_key")

\* lines 97, 108: gc.open_by_key(wb_id)
OpenByKey ==
    ExportStep("open_by_key", "worksheet")

\* lines 103, 109: wb.worksheet(ws_name)
Worksheet ==
    ExportStep("worksheet", "clear")

\* Clear passed over: the worksheet keeps its values.
WsClear_Skipped ==
    /\ epc = "clear"
    /\ \/ ws_cells' = ws_cells /\ EGoto("set_with_dataframe")
       \/ ws_cells' = ws_cells /\ ERaise
    /\ UNCHANGED <<db_curr_enrollment, df_curr_enrollment, ws_cells_before>>
    /\ UNCHANGED <<renderVars, joinVars, zipKeyVars, callVars>>

\* line 110: ws.clear() removes every value of the worksheet, or raises.
WsClear ==
    /\ epc = "clear"
    /\ \/ ws_cells' = [cell \in Grid |-> Blank] /\ EGoto("set_with_dataframe")
       \/ ws_cells' = ws_cells /\ ERaise
    /\ UNCHANGED <<db_curr_enrollment, df_curr_enrollment, ws_cells_before>>
    /\ UNCHANGED <<renderVars, joinVars, zipKeyVars, callVars>>

\* The cells set_with_dataframe writes for DataFrame df: the column names in
\* row 1, the rows below, from column 1 (its defaults: row=1, col=1,
\* include_index=False, include_column_header=True, resize=False).
DataFrameCells(df) ==
    {cell \in Grid : /\ cell[1] <= Len(df.rows) + 1
                     /\ cell[2] <= Len(df.columns)}

DataFrameValue(df, cell) ==
    IF cell[1] = 1 THEN df.columns[cell[2]] ELSE df.rows[cell[1] - 1][cell[2]]

\* line 111: set_with_dataframe(ws, df_curr_enrollment) updates the cells of
\* the DataFrame's range in one request and leaves the others, or raises.
SetWithDataframe ==
    /\ epc = "set_with_dataframe"
    /\ \/ /\ ws_cells' =
                 [cell \in Grid |->
                     IF cell \in DataFrameCells(df_curr_enrollment[1])
                     THEN DataFrameValue(df_curr_enrollment[1], cell)
                     ELSE ws_cells[cell]]
          /\ EGoto("done")
       \/ ws_cells' = ws_cells /\ ERaise
    /\ UNCHANGED <<db_curr_enrollment, df_curr_enrollment, ws_cells_before>>
    /\ UNCHANGED <<renderVars, joinVars, zipKeyVars, callVars>>

InitExport ==
    /\ ExportInit
    /\ RenderIdle
    /\ CallIdle
    /\ JoinIdle
    /\ ZipKeyIdle

NextExport ==
    \/ ReadSchema
    \/ ReadSql
    \/ ServiceAccount
    \/ OpenByKey
    \/ Worksheet
    \/ WsClear
    \/ SetWithDataframe

SpecExport == InitExport /\ [][NextExport]_vars

\* The statements before ws.clear().
BeforeClear ==
    {"read_schema", "read_sql", "service_account", "open_by_key", "worksheet"}

\* The value row r, column c holds when the worksheet holds the table of the
\* database and nothing else.
TableOnly(r, c) ==
    IF c > Len(db_curr_enrollment.columns) THEN Blank
    ELSE IF r = 1 THEN db_curr_enrollment.columns[c]
    ELSE IF r - 1 <= Len(db_curr_enrollment.rows)
    THEN db_curr_enrollment.rows[r - 1][c]
    ELSE Blank

\* C16: the table is read from the database before the worksheet is cleared,
\* and the worksheet is cleared before the table is written.  When reading
\* the database, loading the credential or opening the workbook or the
\* worksheet fails, the worksheet keeps its previous content; after a
\* successful run it holds the exported table and nothing else.
C16_ClearBeforeWrite ==
    /\ epc \in {"clear", "set_with_dataframe", "done"} =>
           df_curr_enrollment = <<db_curr_enrollment>>
    /\ epc \in BeforeClear \cup {"clear"} => ws_cells = ws_cells_before
    /\ (epc = "raised" /\ eraised_at \in BeforeClear) =>
           ws_cells = ws_cells_before
    /\ epc = "set_with_dataframe" => \A cell \in Grid : ws_cells[cell] = Blank
    /\ epc = "done" =>
           \A cell \in Grid : ws_cells[cell] = TableOnly(cell[1], cell[2])

C16_Witness ==
    /\ epc = "done"
    /\ Len(db_curr_enrollment.rows) = 1
    /\ Len(db_curr_enrollment.columns) = 1
    /\ \A cell \in Grid : ws_cells_before[cell] = "old"
    /\ ws_cells[<<2, 1>>] = db_curr_enrollment.rows[1][1]
    /\ ws_cells[<<3, 1>>] = Blank
    /\ ws_cells[<<1, 2>>] = Blank

=============================================================================
